---- MODULE Spec2Model ----
(***************************************************************************)
(* Browser automation control core of the agent tool surface               *)
(* (tools/browser/browser.ts): the module-level session (browser, page,    *)
(* currentRefs), the snapshot parser, the ref resolver and the action      *)
(* dispatcher of browserTool.func.  Strings the code inspects character by *)
(* character (snapshot text, ref ids, roles, names) are sequences of       *)
(* one-character strings, so that the regular expressions of the parser    *)
(* and the slice of the truncation are computed, not assumed.              *)
(***************************************************************************)
EXTENDS Integers, Sequences, FiniteSets, TLC

VARIABLES browser, page, currentRefs, world, dom, pc, result, calls, last,
          captured, proc, cache, api

vars == <<browser, page, currentRefs, world, dom, pc, result, calls, last,
          captured, proc, cache, api>>

(***************************************************************************)
(* Bounds of the model.                                                    *)
(***************************************************************************)
MaxBrowsers == 2
MaxPages == 3
MaxFail == 6
MaxMatches == 3
MaxCharsBound == 3

\* the values of a sequence or function
Range(f) == {f[i] : i \in DOMAIN f}

(***************************************************************************)
(* Optional values: None is JavaScript's undefined, Some(v) a value.       *)
(***************************************************************************)
None == << >>
Some(v) == << v >>

\* the value of F on v, with v computed once (a `const x = v` of the source)
Only(S) == CHOOSE r \in S : TRUE
Bind(v, F(_)) == Only({F(x) : x \in {v}})

(***************************************************************************)
(* Characters.                                                             *)
(***************************************************************************)
DigitChars == <<"0", "1", "2", "3", "4", "5", "6", "7", "8", "9">>
IsDigit(c) == \E i \in 1..10 : DigitChars[i] = c
DigitVal(c) == (CHOOSE i \in 1..10 : DigitChars[i] = c) - 1
LetterChars == {"a", "b", "c", "d", "e", "f", "g", "h", "i", "j", "k", "l", "m",
                "n", "o", "p", "q", "r", "s", "t", "u", "v", "w", "x", "y", "z",
                "A", "B", "C", "D", "E", "F", "G", "H", "I", "J", "K", "L", "M",
                "N", "O", "P", "Q", "R", "S", "T", "U", "V", "W", "X", "Y", "Z"}
\* \d, \w ([A-Za-z0-9_]) and \s (as far as a line can hold it) of a
\* JavaScript regular expression
DigitClass == {DigitChars[i] : i \in 1..10}
WordClass == LetterChars \cup DigitClass \cup {"_"}
SpaceClass == {" ", "\t", "\r"}

Min(S) == CHOOSE x \in S : \A y \in S : x <= y

\* s.slice(0, n) of JavaScript: a negative n counts from the end
Slice0(s, n) ==
  IF n >= 0 THEN SubSeq(s, 1, IF n < Len(s) THEN n ELSE Len(s))
  ELSE SubSeq(s, 1, IF Len(s) + n > 0 THEN Len(s) + n ELSE 0)

\* does the literal lit occur in s at position i
At(s, i, lit) ==
  /\ i >= 1
  /\ i + Len(lit) - 1 <= Len(s)
  /\ \A k \in 1..Len(lit) : s[i + k - 1] = lit[k]

\* the end of the maximal run of characters of the class cls that starts at i
\* (i - 1 when s[i] is not of the class)
RunEnd(s, i, cls) ==
  LET stops == {j \in i..Len(s) : s[j] \notin cls}
  IN  IF stops = {} THEN Len(s) ELSE Min(stops) - 1

\* parseInt(digits, 10) for a non-empty string of decimal digits
RECURSIVE ParseInt(_)
ParseInt(ds) ==
  IF Len(ds) = 0 THEN 0
  ELSE 10 * ParseInt(SubSeq(ds, 1, Len(ds) - 1)) + DigitVal(ds[Len(ds)])

(***************************************************************************)
(* Literals of the source.                                                 *)
(***************************************************************************)
RefOpen == <<"[", "r", "e", "f", "=">>
NthOpen == <<"[", "n", "t", "h", "=">>
GenericRole == <<"g", "e", "n", "e", "r", "i", "c">>
TruncationMarker ==
  <<"\n", "\n", "[", ".", ".", ".", "T", "R", "U", "N", "C", "A", "T", "E", "D", " ", "-", " ",
    "p", "a", "g", "e", " ", "t", "o", "o", " ", "l", "a", "r", "g", "e", ",", " ",
    "u", "s", "e", " ", "r", "e", "a", "d", " ", "a", "c", "t", "i", "o", "n", " ", "f", "o", "r", " ", "f", "u", "l", "l", " ", "t", "e", "x", "t", "]">>
DefaultMaxChars == 50000
ErrorPrefix == "[Browser (Playwright)] "

(***************************************************************************)
(* The accessibility tree of the active page, as the driver holds it: a    *)
(* sequence of nodes.  The driver serializes it into the line-based text   *)
(* the source documents (one "- role "name" [ref=eN]" line per node); the  *)
(* program only ever sees that text.                                       *)
(***************************************************************************)
Node(indent, bullet, quoted, role, name, ref, nth, colon, text) ==
  [indent |-> indent, bullet |-> bullet, quoted |-> quoted, role |-> role,
   name |-> name, ref |-> ref, nth |-> nth, colon |-> colon, text |-> text]

Spaces(n) == [i \in 1..n |-> " "]

\* the decimal digits of a natural number
RECURSIVE Decimal(_)
Decimal(n) ==
  IF n < 10 THEN <<DigitChars[n + 1]>>
  ELSE Decimal(n \div 10) \o <<DigitChars[(n % 10) + 1]>>

RenderLine(l) ==
  Spaces(l.indent)
  \o (IF l.bullet THEN <<"-", " ">> ELSE << >>)
  \o (IF l.quoted THEN <<"'">> ELSE << >>)
  \o l.role
  \o (IF l.name = None THEN << >> ELSE <<" ", "\"">> \o l.name[1] \o <<"\"">>)
  \o (IF l.ref = None THEN << >> ELSE <<" ">> \o RefOpen \o <<"e">> \o l.ref[1] \o <<"]">>)
  \o (IF l.nth = None THEN << >> ELSE <<" ">> \o NthOpen \o Decimal(l.nth[1]) \o <<"]">>)
  \o (IF l.quoted THEN <<"'">> ELSE << >>)
  \o (IF l.colon THEN <<":">> ELSE << >>)
  \o (IF l.text = None THEN << >> ELSE <<" ", "\"">> \o l.text[1] \o <<"\"">>)

RECURSIVE Render(_)
Render(d) ==
  IF Len(d) = 0 THEN << >>
  ELSE IF Len(d) = 1 THEN RenderLine(d[1])
  ELSE RenderLine(d[1]) \o <<"\n">> \o Render(Tail(d))

(***************************************************************************)
(* parseRefsFromSnapshot and its four regular expressions.                 *)
(***************************************************************************)
\* snapshot.split('\n')
SplitLines(s) ==
  Bind(s, LAMBDA text :
  Bind({i \in 1..Len(text) : text[i] = "\n"}, LAMBDA nl :
  Bind({1} \cup {i + 1 : i \in nl}, LAMBDA starts :
    LET StartOf(j) == CHOOSE a \in starts : Cardinality({b \in starts : b < a}) = j - 1
        EndOf(a) == IF \E i \in nl : i >= a THEN Min({i \in nl : i >= a}) - 1
                    ELSE Len(text)
    IN  [j \in 1..(Cardinality(nl) + 1) |->
           SubSeq(text, StartOf(j), EndOf(StartOf(j)))])))

\* /\[ref=(e\d+)\]/ matched at position i
RefMatchAt(line, i) ==
  /\ At(line, i, RefOpen \o <<"e">>)
  /\ LET e == RunEnd(line, i + 6, DigitClass)
     IN  e >= i + 6 /\ e + 1 <= Len(line) /\ line[e + 1] = "]"

\* line.match(/\[ref=(e\d+)\]/): group 1 of the leftmost match
RefMatch(line) ==
  LET S == {i \in 1..Len(line) : RefMatchAt(line, i)}
  IN  IF S = {} THEN None
      ELSE Some(SubSeq(line, Min(S) + 5, RunEnd(line, Min(S) + 6, DigitClass)))

\* line.match(/^\s*-\s*(\w+)/): group 1
RoleMatch(line) ==
  LET a == RunEnd(line, 1, SpaceClass) + 1
  IN  IF a <= Len(line) /\ line[a] = "-"
      THEN LET b == RunEnd(line, a + 1, SpaceClass) + 1
               e == RunEnd(line, b, WordClass)
           IN  IF e >= b THEN Some(SubSeq(line, b, e)) ELSE None
      ELSE None

\* line.match(/"([^"]+)"/): group 1 of the leftmost match
NameMatch(line) ==
  Bind({i \in 1..Len(line) : line[i] = "\""}, LAMBDA Q :
    LET NextQ(i) == Min({j \in Q : j > i})
        S == {i \in Q : (\E j \in Q : j > i) /\ NextQ(i) > i + 1}
    IN  IF S = {} THEN None
        ELSE Some(SubSeq(line, Min(S) + 1, NextQ(Min(S)) - 1)))

\* /\[nth=(\d+)\]/ matched at position i
NthMatchAt(line, i) ==
  /\ At(line, i, NthOpen)
  /\ LET e == RunEnd(line, i + 5, DigitClass)
     IN  e >= i + 5 /\ e + 1 <= Len(line) /\ line[e + 1] = "]"

\* line.match(/\[nth=(\d+)\]/): group 1 of the leftmost match
NthMatch(line) ==
  LET S == {i \in 1..Len(line) : NthMatchAt(line, i)}
  IN  IF S = {} THEN None
      ELSE Some(SubSeq(line, Min(S) + 5, RunEnd(line, Min(S) + 5, DigitClass)))

\* a map whose set keeps the entry a key already has
MapSetKeepFirst(refs, ref, entry) == refs @@ (ref :> entry)

\* refs.set(ref, entry) on a Map
MapSet(refs, ref, entry) == (ref :> entry) @@ refs

EmptyRefs == << >>

\* the body of the for loop, for one line
ParseLine(refs, line) ==
  Bind(line, LAMBDA ln :
  Bind(RefMatch(ln), LAMBDA refMatch :
    IF refMatch = None THEN refs
    ELSE Bind(RoleMatch(ln), LAMBDA roleMatch :
         Bind(NthMatch(ln), LAMBDA nthMatch :
           MapSet(refs, refMatch[1],
                  [role |-> IF roleMatch # None THEN roleMatch[1] ELSE GenericRole,
                   name |-> NameMatch(ln),
                   nth |-> IF nthMatch # None THEN Some(ParseInt(nthMatch[1]))
                           ELSE None])))))

RECURSIVE ParseLines(_, _, _)
ParseLines(lines, i, refs) ==
  IF i > Len(lines) THEN refs
  ELSE ParseLines(lines, i + 1, ParseLine(refs, lines[i]))

parseRefsFromSnapshot(snapshot) ==
  Bind(SplitLines(snapshot), LAMBDA lines : ParseLines(lines, 1, EmptyRefs))

(***************************************************************************)
(* resolveRefToLocator: the locator it builds, as a descriptor.            *)
(***************************************************************************)
AriaRefLocator(ref) ==
  [via |-> "aria-ref", ref |-> ref, role |-> << >>, name |-> None,
   exact |-> FALSE, nth |-> None]

\* a resolver that does not look the ref up
resolveRefByIdOnly(refs, ref) == AriaRefLocator(ref)

resolveRefToLocator(refs, ref) ==
  IF ref \notin DOMAIN refs THEN AriaRefLocator(ref)
  ELSE LET refData == refs[ref]
           named == refData.name # None /\ Len(refData.name[1]) > 0
       IN  [via |-> "getByRole", ref |-> ref, role |-> refData.role,
            name |-> IF named THEN refData.name ELSE None,
            exact |-> named,
            nth |-> IF refData.nth # None /\ refData.nth[1] > 0
                    THEN refData.nth ELSE None]

(***************************************************************************)
(* The truncation of takeSnapshot.                                         *)
(***************************************************************************)
Limit(maxChars) == IF maxChars # None THEN maxChars[1] ELSE DefaultMaxChars

\* a truncation that also cuts a text of exactly the limit
TruncateAtLimit(snapshot, maxChars) ==
  Bind(snapshot, LAMBDA text :
    IF Len(text) >= Limit(maxChars)
    THEN [snapshot |-> Slice0(text, Limit(maxChars)) \o TruncationMarker,
          truncated |-> TRUE]
    ELSE [snapshot |-> text, truncated |-> FALSE])

Truncate(snapshot, maxChars) ==
  Bind(snapshot, LAMBDA text :
    IF Len(text) > Limit(maxChars)
    THEN [snapshot |-> Slice0(text, Limit(maxChars)) \o TruncationMarker,
          truncated |-> TRUE]
    ELSE [snapshot |-> text, truncated |-> FALSE])

(***************************************************************************)
(* The trees a page can show.                                              *)
(***************************************************************************)
E1 == <<"e", "1">>
E2 == <<"e", "2">>

\* - link "Docs" [ref=e1]
LinkDocs == Node(0, TRUE, FALSE, <<"l", "i", "n", "k">>, Some(<<"D", "o", "c", "s">>), Some(<<"1">>), None, FALSE, None)
\* - button "Go" [ref=e2] [nth=2]
ButtonGo == Node(0, TRUE, FALSE, <<"b", "u", "t", "t", "o", "n">>, Some(<<"G", "o">>), Some(<<"2">>), Some(2), FALSE, None)
\* - link "Home" [ref=e1] [nth=0]
LinkHome == Node(0, TRUE, FALSE, <<"l", "i", "n", "k">>, Some(<<"H", "o", "m", "e">>), Some(<<"1">>), Some(0), FALSE, None)
\*   - button [ref=e1] [nth=1]
ButtonOne == Node(2, TRUE, FALSE, <<"b", "u", "t", "t", "o", "n">>, None, Some(<<"1">>), Some(1), FALSE, None)
\* ab
Short == Node(0, FALSE, FALSE, <<"a", "b">>, None, None, None, FALSE, None)

Doms ==
  { << >>, <<Short>>, <<LinkDocs>>, <<LinkDocs, ButtonGo>>, <<LinkHome>>,
    <<LinkDocs, ButtonOne>> }

\* The lines of the snapshot grammar: optional indentation, the "- " bullet,
\* a role, an optional quoted name, an optional ref and nth marker, a ":" for
\* a node with children or inline text, the inline text (quoted); and the
\* same line as a YAML-quoted key ('...'), which the driver writes when the
\* name holds ": ".
MaxLines == 3

GrammarLines ==
  {Node(i, b, q, r, n, ref, nth, c, t) :
     i \in {0, 2}, b \in BOOLEAN, q \in BOOLEAN,
     r \in {<< >>, <<"h", "1">>},
     n \in {None, Some(<<"a", ":", " ", "b">>)},
     ref \in {None, Some(<<"7">>), Some(<<"1", "2">>)},
     nth \in {None, Some(0), Some(10)},
     c \in BOOLEAN,
     t \in {None, Some(<<"x", " ", "y">>)}}

\*   - button "Search" [ref=e7] [nth=2]
SearchButton ==
  Node(2, TRUE, FALSE, <<"b", "u", "t", "t", "o", "n">>, Some(<<"S", "e", "a", "r", "c", "h">>), Some(<<"7">>), Some(2), FALSE, None)

\* lines that share the ref e7 with different attributes, and two that do not
RepeatLines ==
  { Node(0, TRUE, FALSE, <<"l", "i", "n", "k">>, Some(<<"A">>), Some(<<"7">>), None, FALSE, None),
    Node(2, TRUE, FALSE, <<"b", "u", "t", "t", "o", "n">>, None, Some(<<"7">>), Some(2), FALSE, None),
    Node(0, FALSE, FALSE, <<"t", "a", "b">>, Some(<<"B">>), Some(<<"7">>), Some(0), TRUE, None),
    Node(0, TRUE, FALSE, <<"l", "i", "n", "k">>, Some(<<"C">>), Some(<<"1", "2">>), None, FALSE, None),
    Node(0, TRUE, FALSE, <<"m", "a", "i", "n">>, None, None, None, TRUE, None) }

SeqsOf(S, n) == UNION {[1..k -> S] : k \in 2..n}

GrammarDoms ==
  {<<l>> : l \in GrammarLines \cup {SearchButton}} \cup SeqsOf(RepeatLines, MaxLines)

\* the text of every tree and the table parsed from it, tabulated
PageText == [d \in Doms |-> Render(d)] @@ << >>
PageRefs == [d \in Doms |-> parseRefsFromSnapshot(PageText[d])] @@ << >>
GrammarText == [d \in GrammarDoms |-> Render(d)] @@ << >>
GrammarRefs == [d \in GrammarDoms |-> parseRefsFromSnapshot(GrammarText[d])] @@ << >>
SnapshotText(d) == IF d \in Doms THEN PageText[d] ELSE GrammarText[d]
ParsedRefs(d) == IF d \in Doms THEN PageRefs[d] ELSE GrammarRefs[d]

(***************************************************************************)
(* The driver.  world is what Playwright holds: how many browsers were     *)
(* launched, which of them are open, the browser of every context and the  *)
(* context of every page.  Closing a browser closes its contexts and       *)
(* pages; the source closes nothing else.                                  *)
(***************************************************************************)
PageAlive(w, p) ==
  /\ p \in 1..Len(w.pageCtx)
  /\ w.ctxBrowser[w.pageCtx[p]] \in w.open
  /\ p \notin w.closedPages

BrowserAlive(w, b) == b \in w.open

OpenPages(w) == {p \in 1..Len(w.pageCtx) : PageAlive(w, p)}

(***************************************************************************)
(* One run of browserTool.func.  h is the run's view of the module state   *)
(* and of the driver, with the driver calls made so far; fuel = k > 0      *)
(* makes the k-th awaited driver call of the run throw, and a call on a    *)
(* closed page, context or browser always throws.                          *)
(***************************************************************************)
Threw(h) == h.thrown # "none"

Await(h0, name, alive) ==
  Bind(h0, LAMBDA h :
    IF Threw(h) THEN h
    ELSE [h EXCEPT !.calls = Append(@, name),
                   !.fuel = IF @ > 0 THEN @ - 1 ELSE 0,
                   !.thrown = IF h.fuel = 1 \/ ~alive THEN name ELSE "none"])

\* an awaited call on the active page: await p.name(...)
OnPage(h0, name) ==
  Bind(h0, LAMBDA h : Await(h, name, PageAlive(h.world, h.page)))

\* a network-idle wait whose failure is not caught
SettleThrows(h0) ==
  Bind(h0, LAMBDA h : OnPage(h, "waitForLoadState"))

\* await p.waitForLoadState('networkidle', ...).catch(() => {}): the wait
\* fails when it is the call chosen to fail or when the page is gone, and
\* the failure is dropped
Settle(h0) ==
  Bind(h0, LAMBDA h :
    IF Threw(h) THEN h
    ELSE [h EXCEPT !.calls = Append(@, "waitForLoadState"),
                   !.fuel = IF @ > 0 THEN @ - 1 ELSE 0,
                   !.swallowed = @ \/ h.fuel = 1 \/ ~PageAlive(h.world, h.page)])

\* await p.waitForTimeout(ms)
WaitForTimeout(h0, ms) ==
  Bind(h0, LAMBDA h :
    IF Threw(h) THEN h
    ELSE OnPage([h EXCEPT !.paused = Append(@, ms)], "waitForTimeout"))

\* a synchronous driver call that builds a locator: it cannot fail
Sync(h0, name) ==
  Bind(h0, LAMBDA h : IF Threw(h) THEN h ELSE [h EXCEPT !.calls = Append(@, name)])

\* browser = await chromium.launch(...)
Launch(h0) ==
  Bind(h0, LAMBDA h :
  Bind(Await(h, "launch", TRUE), LAMBDA a :
    IF Threw(a) THEN a
    ELSE [a EXCEPT !.world.launched = @ + 1,
                   !.world.open = @ \cup {h.world.launched + 1},
                   !.browser = h.world.launched + 1]))

\* await browser.newContext(): the new context is the last of world.ctxBrowser
NewContext(h0, b) ==
  Bind(Await(h0, "newContext", BrowserAlive(h0.world, b)), LAMBDA a :
    IF Threw(a) THEN a
    ELSE [a EXCEPT !.world.ctxBrowser = Append(@, b)])

\* await context.newPage(): the new page is the last of world.pageCtx
NewPage(h0, c) ==
  Bind(Await(h0, "newPage",
             c \in 1..Len(h0.world.ctxBrowser)
             /\ BrowserAlive(h0.world, h0.world.ctxBrowser[c])), LAMBDA a :
    IF Threw(a) THEN a
    ELSE [a EXCEPT !.world.pageCtx = Append(@, c)])

\* ensureBrowser without the test of `page`
ensureBrowserRenews(h0) ==
  Bind(h0, LAMBDA h :
  Bind(IF h.browser = 0 THEN Launch(h) ELSE h, LAMBDA h1 :
    IF ~Threw(h1)
    THEN Bind(NewContext(h1, h1.browser), LAMBDA c :
         Bind(NewPage(c, Len(c.world.ctxBrowser)), LAMBDA n :
           IF Threw(n) THEN n
           ELSE [n EXCEPT !.page = Len(n.world.pageCtx)]))
    ELSE h1))

ensureBrowser(h0) ==
  Bind(h0, LAMBDA h :
  Bind(IF h.browser = 0 THEN Launch(h) ELSE h, LAMBDA h1 :
    IF ~Threw(h1) /\ h1.page = 0
    THEN Bind(NewContext(h1, h1.browser), LAMBDA c :
         Bind(NewPage(c, Len(c.world.ctxBrowser)), LAMBDA n :
           IF Threw(n) THEN n
           ELSE [n EXCEPT !.page = Len(n.world.pageCtx)]))
    ELSE h1))

\* closeBrowser without the test of `browser`
closeBrowserUnguarded(h0) ==
  Bind(h0, LAMBDA h :
  Bind(Await(h, "close", h.browser # 0), LAMBDA a :
    IF Threw(a) THEN a
    ELSE [a EXCEPT !.world.open = @ \ {h.browser},
                   !.browser = 0,
                   !.page = 0,
                   !.currentRefs = EmptyRefs]))

\* closeBrowser without `page = null`
closeBrowserKeepsPage(h0) ==
  Bind(h0, LAMBDA h :
    IF h.browser # 0
    THEN Bind(Await(h, "close", TRUE), LAMBDA a :
           IF Threw(a) THEN a
           ELSE [a EXCEPT !.world.open = @ \ {h.browser},
                          !.browser = 0,
                          !.currentRefs = EmptyRefs])
    ELSE h)

\* closeBrowser without `currentRefs.clear()`
closeBrowserKeepsRefs(h0) ==
  Bind(h0, LAMBDA h :
    IF h.browser # 0
    THEN Bind(Await(h, "close", TRUE), LAMBDA a :
           IF Threw(a) THEN a
           ELSE [a EXCEPT !.world.open = @ \ {h.browser},
                          !.browser = 0,
                          !.page = 0])
    ELSE h)

\* a closeBrowser that closes every browser that was launched
closeBrowserClosingAll(h0) ==
  Bind(h0, LAMBDA h :
    IF h.browser # 0
    THEN Bind(Await(h, "close", TRUE), LAMBDA a :
           IF Threw(a) THEN a
           ELSE [a EXCEPT !.world.open = {},
                          !.browser = 0,
                          !.page = 0,
                          !.currentRefs = EmptyRefs])
    ELSE h)

\* closeBrowser without `browser = null`
closeBrowserKeepsBrowser(h0) ==
  Bind(h0, LAMBDA h :
    IF h.browser # 0
    THEN Bind(Await(h, "close", TRUE), LAMBDA a :
           IF Threw(a) THEN a
           ELSE [a EXCEPT !.world.open = @ \ {h.browser},
                          !.page = 0,
                          !.currentRefs = EmptyRefs])
    ELSE h)

\* a browser.close() that throws leaves the browser as it is
closeBrowser(h0) ==
  Bind(h0, LAMBDA h :
    IF h.browser # 0
    THEN Bind(Await(h, "close", TRUE), LAMBDA a :
           IF Threw(a) THEN a
           ELSE [a EXCEPT !.world.open = @ \ {h.browser},
                          !.browser = 0,
                          !.page = 0,
                          !.currentRefs = EmptyRefs])
    ELSE h)

\* takeSnapshot that adds the parsed refs to the table it finds
takeSnapshotMerging(h0, p, maxChars) ==
  Bind(h0, LAMBDA h :
  Bind(Await(h, "snapshotForAI", PageAlive(h.world, p)), LAMBDA a :
    IF Threw(a)
    THEN [h |-> [a EXCEPT !.dom = h.seen], out |-> Truncate(<< >>, None)]
    ELSE [h |-> [a EXCEPT !.currentRefs = ParsedRefs(h.dom) @@ h.currentRefs],
          out |-> Truncate(SnapshotText(h.dom), maxChars)]))

\* takeSnapshot that empties the table before it asks for the tree
takeSnapshotClearingFirst(h0, p, maxChars) ==
  Bind(h0, LAMBDA h :
  Bind(Await(h, "snapshotForAI", PageAlive(h.world, p)), LAMBDA a :
    IF Threw(a)
    THEN [h |-> [a EXCEPT !.dom = h.seen, !.currentRefs = EmptyRefs],
          out |-> Truncate(<< >>, None)]
    ELSE [h |-> [a EXCEPT !.currentRefs = ParsedRefs(h.dom)],
          out |-> Truncate(SnapshotText(h.dom), maxChars)]))

\* takeSnapshot that parses the refs from the text it returns
takeSnapshotParsingReturned(h0, p, maxChars) ==
  Bind(h0, LAMBDA h :
  Bind(Await(h, "snapshotForAI", PageAlive(h.world, p)), LAMBDA a :
    IF Threw(a)
    THEN [h |-> [a EXCEPT !.dom = h.seen], out |-> Truncate(<< >>, None)]
    ELSE Bind(Truncate(SnapshotText(h.dom), maxChars), LAMBDA out :
           [h |-> [a EXCEPT !.currentRefs = parseRefsFromSnapshot(out.snapshot)],
            out |-> out])))

\* h.dom is the tree of the page at the time of the capture and
\* SnapshotText(h.dom) the text the driver returns for it; a capture that
\* throws leaves the tree last captured (h.seen) on record
takeSnapshot(h0, p, maxChars) ==
  Bind(h0, LAMBDA h :
  Bind(Await(h, "snapshotForAI", PageAlive(h.world, p)), LAMBDA a :
    IF Threw(a)
    THEN [h |-> [a EXCEPT !.dom = h.seen], out |-> Truncate(<< >>, None)]
    ELSE [h |-> [a EXCEPT !.currentRefs = ParsedRefs(h.dom)],
          out |-> Truncate(SnapshotText(h.dom), maxChars)]))

(***************************************************************************)
(* What a strict locator acts on when m elements of the page match it:     *)
(* the zero-based index of the element, or None when the interaction       *)
(* throws (no element; or, for a locator without nth(), more than one).    *)
(***************************************************************************)
Target(loc, m) ==
  IF loc.via = "aria-ref" THEN (IF m >= 1 THEN Some(0) ELSE None)
  ELSE IF loc.nth # None THEN (IF loc.nth[1] < m THEN loc.nth ELSE None)
  ELSE IF m = 1 THEN Some(0) ELSE None

(***************************************************************************)
(* Results of the tool function (formatToolResult of an object).           *)
(***************************************************************************)
NoResult ==
  [settled |-> "returned", ok |-> FALSE, error |-> "", prefix |-> "",
   snapshot |-> None, truncated |-> FALSE, refCount |-> 0, refs |-> EmptyRefs,
   echo |-> None, typed |-> None]

Ok(echo) == [NoResult EXCEPT !.ok = TRUE, !.echo = echo]

Data == NoResult

Err(message) == [NoResult EXCEPT !.error = message]

\* a catch clause that throws the error on
CatchRethrow(h) == [NoResult EXCEPT !.settled = "thrown", !.error = h.thrown]

\* the catch clause of browserTool.func
Catch(h) == [NoResult EXCEPT !.error = h.thrown, !.prefix = ErrorPrefix]

\* try { body } catch (err) { ... }
Func(body) == IF Threw(body.h) THEN Catch(body.h) ELSE body.ret

\* !x for an optional string (url, text, key) and for an optional ref
Given(opt) == opt # None /\ opt[1] # ""
GivenRef(opt) == opt # None /\ Len(opt[1]) > 0

(***************************************************************************)
(* The cases of browserTool.func: each gives the run's final view h and    *)
(* the value the case returns when nothing threw.                          *)
(***************************************************************************)
\* a navigate that gets the page before it looks at url
navigateEnsuresFirst(h0, url) ==
  Bind(ensureBrowser(h0), LAMBDA p :
    IF Threw(p) THEN [h |-> p, ret |-> NoResult]
    ELSE IF ~Given(url)
    THEN [h |-> p, ret |-> Err("url is required for navigate action")]
    ELSE [h |-> OnPage(OnPage(p, "goto"), "title"), ret |-> Ok(url)])

navigate(h0, url) ==
  IF ~Given(url)
  THEN [h |-> h0, ret |-> Err("url is required for navigate action")]
  ELSE [h |-> OnPage(OnPage(ensureBrowser(h0), "goto"), "title"),
        ret |-> Ok(url)]

\* an open that closes the page it replaces
openClosingPrevious(h0, url) ==
  IF ~Given(url)
  THEN [h |-> h0, ret |-> Err("url is required for open action")]
  ELSE Bind(ensureBrowser(h0), LAMBDA h1 :
       Bind(NewPage(h1, IF Threw(h1) THEN 0 ELSE h1.world.pageCtx[h1.page]), LAMBDA h2 :
       Bind(Len(h2.world.pageCtx), LAMBDA newPage :
       Bind(Await(h2, "goto", PageAlive(h2.world, newPage)), LAMBDA g :
       Bind(IF Threw(g) THEN g
            ELSE [g EXCEPT !.page = newPage,
                           !.world.closedPages = @ \cup {h1.page}], LAMBDA h3 :
         [h |-> Await(h3, "title", PageAlive(h3.world, newPage)),
          ret |-> Ok(url)])))))

\* an open that forgets the refs of the page it leaves
openClearingRefs(h0, url) ==
  IF ~Given(url)
  THEN [h |-> h0, ret |-> Err("url is required for open action")]
  ELSE Bind(ensureBrowser(h0), LAMBDA h1 :
       Bind(NewPage(h1, IF Threw(h1) THEN 0 ELSE h1.world.pageCtx[h1.page]), LAMBDA h2 :
       Bind(Len(h2.world.pageCtx), LAMBDA newPage :
       Bind(Await(h2, "goto", PageAlive(h2.world, newPage)), LAMBDA g :
       Bind(IF Threw(g) THEN g
            ELSE [g EXCEPT !.page = newPage, !.currentRefs = EmptyRefs], LAMBDA h3 :
         [h |-> Await(h3, "title", PageAlive(h3.world, newPage)),
          ret |-> Ok(url)])))))

\* an open that closes the page it created when the load fails
openClosingFailed(h0, url) ==
  IF ~Given(url)
  THEN [h |-> h0, ret |-> Err("url is required for open action")]
  ELSE Bind(ensureBrowser(h0), LAMBDA h1 :
       Bind(NewPage(h1, IF Threw(h1) THEN 0 ELSE h1.world.pageCtx[h1.page]), LAMBDA h2 :
       Bind(Len(h2.world.pageCtx), LAMBDA newPage :
       Bind(Await(h2, "goto", PageAlive(h2.world, newPage)), LAMBDA g :
       Bind(IF Threw(g)
            THEN (IF g.thrown = "goto"
                  THEN [g EXCEPT !.world.closedPages = @ \cup {newPage}] ELSE g)
            ELSE [g EXCEPT !.page = newPage], LAMBDA h3 :
         [h |-> Await(h3, "title", PageAlive(h3.world, newPage)),
          ret |-> Ok(url)])))))

\* the new page is created in the context of the active page, and becomes
\* the active page once its goto has returned
open(h0, url) ==
  IF ~Given(url)
  THEN [h |-> h0, ret |-> Err("url is required for open action")]
  ELSE Bind(ensureBrowser(h0), LAMBDA h1 :
       Bind(NewPage(h1, IF Threw(h1) THEN 0 ELSE h1.world.pageCtx[h1.page]), LAMBDA h2 :
       Bind(Len(h2.world.pageCtx), LAMBDA newPage :
       Bind(Await(h2, "goto", PageAlive(h2.world, newPage)), LAMBDA g :
       Bind(IF Threw(g) THEN g ELSE [g EXCEPT !.page = newPage], LAMBDA h3 :
         [h |-> Await(h3, "title", PageAlive(h3.world, newPage)),
          ret |-> Ok(url)])))))

snapshot(h0, maxChars) ==
  Bind(Settle(ensureBrowser(h0)), LAMBDA h2 :
  Bind(takeSnapshot(h2, h2.page, maxChars), LAMBDA t :
  Bind(OnPage(t.h, "title"), LAMBDA h3 :
    [h |-> h3,
     ret |-> [Data EXCEPT !.snapshot = Some(t.out.snapshot),
                          !.truncated = t.out.truncated,
                          !.refCount = Cardinality(DOMAIN h3.currentRefs),
                          !.refs = h3.currentRefs]])))

\* an element interaction through a resolved locator: click, fill or hover;
\* input is the text handed to fill
Interact(h0, call, ref, input, m) ==
  Bind(h0, LAMBDA h :
  Bind(resolveRefToLocator(h.currentRefs, ref), LAMBDA locator :
  Bind(Sync(h, locator.via), LAMBDA l :
    Await(IF input # None THEN [l EXCEPT !.filled = Append(@, input[1])] ELSE l,
          call, PageAlive(l.world, l.page) /\ Target(locator, m) # None))))

click(h, request, m) ==
  IF ~GivenRef(request.ref)
  THEN [h |-> h, ret |-> Err("ref is required for click")]
  ELSE [h |-> Settle(Interact(h, "click", request.ref[1], None, m)),
        ret |-> Ok(request.ref)]

type(h, request, m) ==
  IF ~GivenRef(request.ref)
  THEN [h |-> h, ret |-> Err("ref is required for type")]
  ELSE IF ~Given(request.text)
  THEN [h |-> h, ret |-> Err("text is required for type")]
  ELSE [h |-> Interact(h, "fill", request.ref[1], request.text, m),
        ret |-> [Ok(request.ref) EXCEPT !.typed = request.text]]

press(h, request) ==
  IF ~Given(request.key)
  THEN [h |-> h, ret |-> Err("key is required for press")]
  ELSE [h |-> Settle(OnPage(h, "press")), ret |-> Ok(request.key)]

hover(h, request, m) ==
  IF ~GivenRef(request.ref)
  THEN [h |-> h, ret |-> Err("ref is required for hover")]
  ELSE [h |-> Interact(h, "hover", request.ref[1], None, m), ret |-> Ok(request.ref)]

ScrollPauseMs == 500

scroll(h, request) ==
  LET scrollDirection == IF request.direction # None THEN request.direction[1] ELSE "down"
  IN  [h |-> WaitForTimeout(OnPage(h, "wheel"), ScrollPauseMs),
       ret |-> Ok(Some(scrollDirection))]

DefaultWaitMs == 2000
MaxWaitMs == 10000

\* a wait that passes timeMs on as it is
waitUnclamped(h, request) ==
  LET waitTime == IF request.timeMs # None THEN request.timeMs[1] ELSE DefaultWaitMs
  IN  [h |-> WaitForTimeout(h, waitTime), ret |-> Ok(Some(waitTime))]

wait(h, request) ==
  LET requested == IF request.timeMs # None THEN request.timeMs[1] ELSE DefaultWaitMs
      waitTime == IF requested < MaxWaitMs THEN requested ELSE MaxWaitMs
  IN  [h |-> WaitForTimeout(h, waitTime), ret |-> Ok(Some(waitTime))]

\* ensureBrowser() runs before the kind is looked at
act(h0, request, m) ==
  IF request = None
  THEN [h |-> h0, ret |-> Err("request is required for act action")]
  ELSE Bind(ensureBrowser(h0), LAMBDA p :
         IF Threw(p) THEN [h |-> p, ret |-> NoResult]
         ELSE CASE request[1].kind = "click" -> click(p, request[1], m)
                [] request[1].kind = "type" -> type(p, request[1], m)
                [] request[1].kind = "press" -> press(p, request[1])
                [] request[1].kind = "hover" -> hover(p, request[1], m)
                [] request[1].kind = "scroll" -> scroll(p, request[1])
                [] request[1].kind = "wait" -> wait(p, request[1]))

read(h0) ==
  [h |-> OnPage(OnPage(Settle(ensureBrowser(h0)), "evaluate"), "title"),
   ret |-> Data]

close(h0) ==
  [h |-> closeBrowser(h0), ret |-> Ok(Some("Browser closed"))]

(***************************************************************************)
(* Arguments of the tool.                                                  *)
(***************************************************************************)
Urls == {None, Some(""), Some("https://example.test")}

MaxCharsOpts == {None} \cup {Some(k) : k \in (-1)..MaxCharsBound}

RefArgs == {None, Some(E1), Some(E2)}

Request(kind, ref, text, key, direction, timeMs) ==
  [kind |-> kind, ref |-> ref, text |-> text, key |-> key,
   direction |-> direction, timeMs |-> timeMs]

TimeMsArgs == {-5, 0, 500, 2000, 9999, 10000, 10001, 20000}

Requests ==
  {None}
  \cup {Some(Request("click", r, None, None, None, None)) : r \in RefArgs}
  \cup {Some(Request("type", None, Some("hi"), None, None, None))}
  \cup {Some(Request("type", Some(E1), t, None, None, None)) :
          t \in {None, Some(""), Some("hi")}}
  \cup {Some(Request("press", None, None, k, None, None)) : k \in {None, Some("Enter")}}
  \cup {Some(Request("hover", r, None, None, None, None)) : r \in {None, Some(E2)}}
  \cup {Some(Request("scroll", None, None, None, dir, None)) :
          dir \in {None, Some("up")}}
  \cup {Some(Request("wait", None, None, None, None, t)) :
          t \in {None} \cup {Some(ms) : ms \in TimeMsArgs}}

\* does the request address an element (so that the number of matches matters)
Addresses(request) ==
  /\ request # None
  /\ request[1].kind \in {"click", "type", "hover"}
  /\ GivenRef(request[1].ref)
  /\ (request[1].kind = "type" => Given(request[1].text))

(***************************************************************************)
(* The REST client of the finance tools (tools/finance/api.ts).  A request *)
(* is an endpoint and its params, the entries of the params object in      *)
(* order, each a key with a string or undefined (None).  The local cache   *)
(* (utils/cache.ts) is a store of responses by endpoint and params.        *)
(***************************************************************************)
BASE_URL == "https://api.financialdatasets.ai"

Endpoints == {"/news", "/prices/"}

ParamSets ==
  { << <<"ticker", Some("AAPL")>>, <<"limit", None>> >>,
    << <<"ticker", Some("AAPL")>>, <<"limit", Some("5")>> >> }

\* options?: { cacheable?: boolean }
OptionSets ==
  {None, Some([cacheable |-> None]), Some([cacheable |-> Some(FALSE)]),
   Some([cacheable |-> Some(TRUE)])}

\* what the server answers when it is asked: a network error, a status that
\* is not ok, a body that is not JSON, or an ok response with JSON data
Answers ==
  {[kind |-> k, data |-> ""] : k \in {"network", "status", "badjson"}}
  \cup {[kind |-> "ok", data |-> d] : d \in {"d1", "d2"}}

CacheKeys == Endpoints \X ParamSets

NoCache == [k \in CacheKeys |-> None]

\* readCache(endpoint, params): the stored response, or null
readCache(c, endpoint, params) == c[<<endpoint, params>>]

\* writeCache(endpoint, params, data, url)
writeCache(c, endpoint, params, data, url) ==
  [c EXCEPT ![<<endpoint, params>>] = Some([data |-> data, url |-> url])]

\* new URL(BASE_URL + endpoint) with the defined params appended in order
RequestUrl(endpoint, params) ==
  [base |-> BASE_URL, path |-> endpoint,
   query |-> SelectSeq(params, LAMBDA entry : entry[2] # None)]

\* options?.cacheable as a condition
Cacheable(options) == options # None /\ options[1].cacheable = Some(TRUE)

ApiRun(c) ==
  [cache |-> c, outcome |-> "returned", value |-> None, error |-> "",
   reads |-> << >>, fetches |-> << >>, writes |-> << >>]

\* a callApi that stores every successful response
callApiAlwaysWriting(c, endpoint, params, options, answer) ==
  Bind(RequestUrl(endpoint, params), LAMBDA url :
  Bind(IF Cacheable(options) THEN readCache(c, endpoint, params) ELSE None, LAMBDA cached :
  Bind(IF Cacheable(options)
       THEN [ApiRun(c) EXCEPT !.reads = <<<<endpoint, params>>>>]
       ELSE ApiRun(c), LAMBDA r :
    IF cached # None
    THEN [r EXCEPT !.value = cached]
    ELSE Bind([r EXCEPT !.fetches = <<url>>], LAMBDA f :
         IF answer.kind # "ok"
         THEN [f EXCEPT !.outcome = "thrown", !.error = answer.kind]
         ELSE [f EXCEPT !.cache = writeCache(c, endpoint, params, answer.data, url),
                        !.writes = <<<<endpoint, params>>>>,
                        !.value = Some([data |-> answer.data, url |-> url])]))))

\* the run of callApi on the cache c when the server would answer `answer`:
\* the cache it leaves, what it returns or throws, and the cache reads,
\* HTTP requests and cache writes it made
callApi(c, endpoint, params, options, answer) ==
  Bind(RequestUrl(endpoint, params), LAMBDA url :
  Bind(IF Cacheable(options) THEN readCache(c, endpoint, params) ELSE None, LAMBDA cached :
  Bind(IF Cacheable(options)
       THEN [ApiRun(c) EXCEPT !.reads = <<<<endpoint, params>>>>]
       ELSE ApiRun(c), LAMBDA r :
    IF cached # None
    THEN [r EXCEPT !.value = cached]
    ELSE Bind([r EXCEPT !.fetches = <<url>>], LAMBDA f :
         IF answer.kind # "ok"
         THEN [f EXCEPT !.outcome = "thrown", !.error = answer.kind]
         ELSE IF Cacheable(options)
         THEN [f EXCEPT !.cache = writeCache(c, endpoint, params, answer.data, url),
                        !.writes = <<<<endpoint, params>>>>,
                        !.value = Some([data |-> answer.data, url |-> url])]
         ELSE [f EXCEPT !.value = Some([data |-> answer.data, url |-> url])]))))

\* the record of the last call of callApi; turn tells one call from the next
NoCall ==
  [turn |-> 0, endpoint |-> "", params |-> << >>, options |-> None,
   answer |-> [kind |-> "", data |-> ""], run |-> ApiRun(NoCache)]

(***************************************************************************)
(* The state machine: one action per tool call.  The caller issues the     *)
(* calls one at a time: a call runs to its result (pc = "done"), the       *)
(* caller takes the result (Deliver) and only then issues the next call.   *)
(***************************************************************************)
NoWorld ==
  [launched |-> 0, open |-> {}, ctxBrowser |-> << >>, pageCtx |-> << >>,
   closedPages |-> {}]

Last(action, arg, kind, ref, maxChars, h, loc, target, m) ==
  [action |-> action, arg |-> arg, kind |-> kind, ref |-> ref, maxChars |-> maxChars,
   swallowed |-> h.swallowed, paused |-> h.paused, filled |-> h.filled,
   thrown |-> h.thrown, loc |-> loc, target |-> target, m |-> m,
   entry |-> IF loc # None /\ ref[1] \in DOMAIN currentRefs
             THEN Some(currentRefs[ref[1]]) ELSE None,
   preBrowser |-> browser, prePage |-> page,
   dropped |-> (DOMAIN currentRefs) \ (DOMAIN h.currentRefs)]

NoLast ==
  [action |-> "none", arg |-> None, kind |-> "", ref |-> None, maxChars |-> None,
   swallowed |-> FALSE, paused |-> << >>, filled |-> << >>,
   thrown |-> "none", loc |-> None, target |-> None, m |-> 0, entry |-> None,
   preBrowser |-> 0, prePage |-> 0, dropped |-> {}]

\* no caller is inside ensureBrowser
NoProcs == << >>

Init ==
  /\ browser = 0
  /\ page = 0
  /\ currentRefs = EmptyRefs
  /\ world = NoWorld
  /\ dom = << >>
  /\ pc = "idle"
  /\ result = NoResult
  /\ calls = << >>
  /\ last = NoLast
  /\ captured = FALSE
  /\ proc = NoProcs
  /\ cache = NoCache
  /\ api = NoCall

H0(fuel) ==
  [browser |-> browser, page |-> page, currentRefs |-> currentRefs,
   world |-> world, dom |-> dom, seen |-> dom, calls |-> << >>,
   fuel |-> fuel, thrown |-> "none",
   swallowed |-> FALSE, paused |-> << >>, filled |-> << >>]

\* the run fits the bounds, and the call chosen to fail was made
Fits(h, fuel) ==
  /\ h.world.launched <= MaxBrowsers
  /\ Len(h.world.ctxBrowser) <= MaxPages
  /\ Len(h.world.pageCtx) <= MaxPages
  /\ (fuel > 0 => h.fuel = 0)

\* has a capture obtained the tree text since the session was last torn down
Captured(h) ==
  IF "close" \in Range(h.calls) /\ h.thrown # "close" THEN FALSE
  ELSE IF "snapshotForAI" \in Range(h.calls) /\ h.thrown # "snapshotForAI" THEN TRUE
  ELSE captured

Commit(body, fuel, lastRec) ==
  /\ Fits(body.h, fuel)
  /\ pc' = "done"
  /\ browser' = body.h.browser
  /\ page' = body.h.page
  /\ currentRefs' = body.h.currentRefs
  /\ world' = body.h.world
  /\ dom' = body.h.dom
  /\ calls' = body.h.calls
  /\ result' = Func(body)
  /\ last' = lastRec
  /\ captured' = Captured(body.h)
  /\ UNCHANGED <<proc, cache, api>>

Navigate ==
  /\ pc = "idle"
  /\ \E url \in Urls, fuel \in 0..MaxFail :
       \E body \in {navigate(H0(fuel), url)} :
         Commit(body, fuel, Last("navigate", url, "", None, None, body.h, None, None, 0))

Open ==
  /\ pc = "idle"
  /\ \E url \in Urls, fuel \in 0..MaxFail :
       \E body \in {open(H0(fuel), url)} :
         Commit(body, fuel, Last("open", url, "", None, None, body.h, None, None, 0))

\* the page shows the tree d when the snapshot is taken
SnapshotOf(d, maxChars, fuel) ==
  /\ pc = "idle"
  /\ \E body \in {snapshot([H0(fuel) EXCEPT !.dom = d], maxChars)} :
       Commit(body, fuel, Last("snapshot", None, "", None, maxChars, body.h, None, None, 0))

\* a page is volatile: what it shows at a capture is any of Doms
Snapshot ==
  \E d \in Doms, maxChars \in MaxCharsOpts, fuel \in 0..MaxFail :
    SnapshotOf(d, maxChars, fuel)

Act ==
  /\ pc = "idle"
  /\ \E request \in Requests, fuel \in 0..MaxFail, m \in 0..MaxMatches :
       /\ Addresses(request) \/ m = 0
       /\ \E body \in {act(H0(fuel), request, m)},
             loc \in {IF Addresses(request)
                      THEN Some(resolveRefToLocator(currentRefs, request[1].ref[1]))
                      ELSE None} :
            Commit(body, fuel,
                   Last("act", request,
                        IF request = None THEN "" ELSE request[1].kind,
                        IF request = None THEN None ELSE request[1].ref,
                        None, body.h, loc,
                        IF loc # None THEN Target(loc[1], m) ELSE None, m))

Read ==
  /\ pc = "idle"
  /\ \E fuel \in 0..MaxFail :
       \E body \in {read(H0(fuel))} :
         Commit(body, fuel, Last("read", None, "", None, None, body.h, None, None, 0))

Close ==
  /\ pc = "idle"
  /\ \E fuel \in 0..MaxFail :
       \E body \in {close(H0(fuel))} :
         Commit(body, fuel, Last("close", None, "", None, None, body.h, None, None, 0))

\* the caller takes the result of the call
Deliver ==
  /\ pc = "done"
  /\ pc' = "idle"
  /\ result' = NoResult
  /\ calls' = << >>
  /\ last' = NoLast
  /\ UNCHANGED <<browser, page, currentRefs, world, dom, captured, proc, cache, api>>

Next == Navigate \/ Open \/ Snapshot \/ Act \/ Read \/ Close \/ Deliver

Spec == Init /\ [][Next]_vars

(***************************************************************************)
(* The snapshot grammar on its own: an active session whose page shows any *)
(* tree of GrammarDoms, and snapshots of that page.                        *)
(***************************************************************************)
InitGrammar ==
  /\ browser = 1
  /\ page = 1
  /\ currentRefs = EmptyRefs
  /\ world = [launched |-> 1, open |-> {1}, ctxBrowser |-> <<1>>,
              pageCtx |-> <<1>>, closedPages |-> {}]
  /\ dom \in GrammarDoms
  /\ pc = "idle"
  /\ result = NoResult
  /\ calls = << >>
  /\ last = NoLast
  /\ captured = FALSE
  /\ proc = NoProcs
  /\ cache = NoCache
  /\ api = NoCall

GrammarSnapshot ==
  \E maxChars \in MaxCharsOpts, fuel \in 0..MaxFail :
    SnapshotOf(dom, maxChars, fuel)

NextGrammar == GrammarSnapshot \/ Deliver

SpecGrammar == InitGrammar /\ [][NextGrammar]_vars

(***************************************************************************)
(* Callers without serialization: two navigate calls run concurrently on   *)
(* the uninitialized session, and a close is issued once both have         *)
(* returned.  JavaScript runs a caller from one await to the next without  *)
(* interruption, so each action below is one such stretch of               *)
(* ensureBrowser (or of the navigate case after it), and the stretches of  *)
(* the two callers interleave freely.  proc[i].pc names the awaited call   *)
(* caller i is suspended in; b, c and p are its browser, its `context`     *)
(* and the page ensureBrowser returned to it.                              *)
(***************************************************************************)
Callers == {1, 2}

Parked == [pc |-> "idle", saw |-> FALSE, b |-> 0, c |-> 0, p |-> 0]

InitRace ==
  /\ browser = 0
  /\ page = 0
  /\ currentRefs = EmptyRefs
  /\ world = NoWorld
  /\ dom = << >>
  /\ pc = "idle"
  /\ result = NoResult
  /\ calls = << >>
  /\ last = NoLast
  /\ captured = FALSE
  /\ proc = [i \in Callers |-> Parked]
  /\ cache = NoCache
  /\ api = NoCall

\* `if (!page)` of ensureBrowser, read in the session (b, pg): the caller
\* either calls browser.newContext() on the browser of the session and is
\* suspended in it, or returns the page of the session and calls goto on it
AfterBrowserTest(me, b, pg) ==
  IF pg = 0
  THEN [me EXCEPT !.pc = "newContext", !.b = b]
  ELSE [me EXCEPT !.pc = "goto", !.p = pg]

\* the call starts: `if (!browser)` and, without a browser, chromium.launch()
RaceEnter(i) ==
  /\ proc[i].pc = "idle"
  /\ proc' = [proc EXCEPT ![i] =
                IF browser = 0
                THEN [@ EXCEPT !.pc = "launch", !.saw = TRUE]
                ELSE AfterBrowserTest(@, browser, page)]
  /\ UNCHANGED <<browser, page, currentRefs, world, dom, pc, result, calls, last,
                 captured, cache, api>>

\* chromium.launch() resolves: `browser = ...`, then `if (!page)`
RaceLaunched(i) ==
  /\ proc[i].pc = "launch"
  /\ \E h \in {Launch(H0(0))} :
       /\ h.world.launched <= MaxBrowsers
       /\ browser' = h.browser
       /\ world' = h.world
       /\ proc' = [proc EXCEPT ![i] = AfterBrowserTest(@, h.browser, page)]
  /\ UNCHANGED <<page, currentRefs, dom, pc, result, calls, last, captured, cache, api>>

\* browser.newContext() resolves: `const context = ...`, then context.newPage()
RaceContext(i) ==
  /\ proc[i].pc = "newContext"
  /\ \E h \in {NewContext(H0(0), proc[i].b)} :
       /\ world' = h.world
       /\ proc' = [proc EXCEPT ![i] =
                     IF Threw(h) THEN [@ EXCEPT !.pc = "returned"]
                     ELSE [@ EXCEPT !.pc = "newPage", !.c = Len(h.world.ctxBrowser)]]
  /\ UNCHANGED <<browser, page, currentRefs, dom, pc, result, calls, last, captured, cache, api>>

\* context.newPage() resolves: `page = ...; return page`, then p.goto(url)
RacePage(i) ==
  /\ proc[i].pc = "newPage"
  /\ \E h \in {NewPage(H0(0), proc[i].c)} :
       /\ Len(h.world.pageCtx) <= MaxPages
       /\ world' = h.world
       /\ page' = IF Threw(h) THEN page ELSE Len(h.world.pageCtx)
       /\ proc' = [proc EXCEPT ![i] =
                     IF Threw(h) THEN [@ EXCEPT !.pc = "returned"]
                     ELSE [@ EXCEPT !.pc = "goto", !.p = Len(h.world.pageCtx)]]
  /\ UNCHANGED <<browser, currentRefs, dom, pc, result, calls, last, captured, cache, api>>

\* p.goto() resolves (or throws), then p.title()
RaceGoto(i) ==
  /\ proc[i].pc = "goto"
  /\ proc' = [proc EXCEPT ![i].pc =
                IF PageAlive(world, proc[i].p) THEN "title" ELSE "returned"]
  /\ UNCHANGED <<browser, page, currentRefs, world, dom, pc, result, calls, last,
                 captured, cache, api>>

\* p.title() resolves (or throws): the call returns its result
RaceTitle(i) ==
  /\ proc[i].pc = "title"
  /\ proc' = [proc EXCEPT ![i].pc = "returned"]
  /\ UNCHANGED <<browser, page, currentRefs, world, dom, pc, result, calls, last,
                 captured, cache, api>>

\* the later close: issued when both calls have returned, so that nothing
\* runs between its await and its assignments
RaceClose ==
  /\ pc = "idle"
  /\ \A i \in Callers : proc[i].pc = "returned"
  /\ \E body \in {close(H0(0))} :
       Commit(body, 0, Last("close", None, "", None, None, body.h, None, None, 0))

NextRace ==
  \/ \E i \in Callers :
       \/ RaceEnter(i)
       \/ RaceLaunched(i)
       \/ RaceContext(i)
       \/ RacePage(i)
       \/ RaceGoto(i)
       \/ RaceTitle(i)
  \/ RaceClose
  \/ Deliver

SpecRace == InitRace /\ [][NextRace]_vars

(***************************************************************************)
(* Calls of the REST client, one after the other, each with any request,   *)
(* any options and any answer of the server.                               *)
(***************************************************************************)
CallApi ==
  \E endpoint \in Endpoints, params \in ParamSets, options \in OptionSets,
     answer \in Answers :
    \E run \in {callApi(cache, endpoint, params, options, answer)} :
      /\ cache' = run.cache
      /\ api' = [turn |-> 1 - api.turn, endpoint |-> endpoint, params |-> params,
                 options |-> options, answer |-> answer, run |-> run]
      /\ UNCHANGED <<browser, page, currentRefs, world, dom, pc, result, calls, last,
                     captured, proc>>

NextApi == CallApi

SpecApi == Init /\ [][NextApi]_vars

(***************************************************************************)
(* Vocabulary of the properties.                                           *)
(***************************************************************************)
\* a tool call has just run to its result
Done(action) == pc = "done" /\ last.action = action

\* the step is a run of the tool call `action`
Ran(action) == pc = "idle" /\ pc' = "done" /\ last'.action = action

\* the ref ids the nodes of a tree carry
RefIdsOf(d) == {<<"e">> \o d[i].ref[1] : i \in {j \in 1..Len(d) : d[j].ref # None}}

\* the marker [ref=<id>] occurs in the text
MentionsRef(text, id) ==
  \E i \in 1..Len(text) : At(text, i, RefOpen \o id \o <<"]">>)

(***************************************************************************)
(* C1.  An act request of kind "click" without a ref returns the           *)
(* MissingParameter failure "ref is required for click" without any driver *)
(* call, from every session state (uninitialized, active, closed), and     *)
(* leaves the session as it was.                                           *)
(* The code calls ensureBrowser() before it looks at the ref: on a session *)
(* without a browser the call launches one.                                *)
(***************************************************************************)
C1_ClickWithoutRefMakesNoDriverCall ==
  (Done("act") /\ last.kind = "click" /\ ~GivenRef(last.ref))
    => /\ result = Err("ref is required for click")
       /\ calls = << >>
       /\ browser = last.preBrowser
       /\ page = last.prePage

(***************************************************************************)
(* C2.  A successful snapshot replaces the RefTable: after it the table    *)
(* holds exactly the ref ids of the captured tree, with the entries parsed *)
(* from its text, and every ref id of the previous table that the new text *)
(* does not mention resolves by the raw-id fallback aria-ref=<id>; an act  *)
(* on a ref that is not in the table builds the aria-ref locator and never *)
(* a role locator.                                                         *)
(***************************************************************************)
C2_SnapshotReplacesRefTable ==
  [][ /\ (Ran("snapshot") /\ last'.thrown = "none")
         => /\ DOMAIN currentRefs' = RefIdsOf(dom')
            /\ currentRefs' = parseRefsFromSnapshot(Render(dom'))
            /\ \A id \in DOMAIN currentRefs :
                 ~MentionsRef(Render(dom'), id)
                   => resolveRefToLocator(currentRefs', id) = AriaRefLocator(id)
      /\ (Ran("act") /\ last'.loc # None /\ last'.ref[1] \notin DOMAIN currentRefs)
         => /\ last'.loc[1] = AriaRefLocator(last'.ref[1])
            /\ "getByRole" \notin Range(calls')
            /\ (last'.thrown \notin {"launch", "newContext", "newPage"}
                  => "aria-ref" \in Range(calls'))
    ]_vars

\* a snapshot has dropped a ref id that the previous snapshot had stored
C2_Witness ==
  /\ Done("snapshot")
  /\ last.thrown = "none"
  /\ last.dropped # {}
  /\ currentRefs # EmptyRefs
  /\ \A id \in last.dropped :
       /\ ~MentionsRef(Render(dom), id)
       /\ resolveRefToLocator(currentRefs, id).via = "aria-ref"

(***************************************************************************)
(* C3.  close on a session without a browser (never initialized, or        *)
(* already closed) returns the success result, makes no driver call and    *)
(* changes neither browser, page, RefTable nor the driver's state; so a    *)
(* second close leaves the state of the first.                             *)
(***************************************************************************)
C3_IdempotentTeardown ==
  [][ (Ran("close") /\ browser = 0)
        => /\ result' = Ok(Some("Browser closed"))
           /\ calls' = << >>
           /\ UNCHANGED <<browser, page, currentRefs, world>>
    ]_vars

\* a close of a session that an earlier close has closed
C3_Witness ==
  /\ Done("close")
  /\ last.preBrowser = 0
  /\ world.launched > 0
  /\ result.ok
  /\ calls = << >>

(***************************************************************************)
(* The truncation of a successful snapshot, as the claim C4 states it, for *)
(* the captured tree, the limit asked for and the result returned.         *)
(***************************************************************************)
LimitAsked == IF last.maxChars = None THEN 50000 ELSE last.maxChars[1]

TruncationBoundary ==
  LET text == Render(dom)
      L == Len(text)
      K == LimitAsked
      out == result.snapshot[1]
      M == Len(TruncationMarker)
  IN  /\ result.snapshot # None
      /\ IF L <= K
         THEN out = text /\ ~result.truncated
         ELSE /\ Len(out) = K + M
              /\ SubSeq(out, 1, K) = SubSeq(text, 1, K)
              /\ SubSeq(out, Len(out) - M + 1, Len(out)) = TruncationMarker
              /\ result.truncated
      /\ (result.truncated <=> L > K)

(***************************************************************************)
(* C4 as stated.  Truncation boundary for every tree text of length L and  *)
(* every limit K (maxChars when supplied, else 50000): L <= K returns the  *)
(* text as it is, truncated = false; L > K returns K + len(marker)         *)
(* characters, the first K of the text and then the marker, truncated =    *)
(* true.  A negative maxChars breaks it: slice(0, K) then counts from the  *)
(* end of the text.                                                        *)
(***************************************************************************)
C4_TruncationBoundaryAnyLimit ==
  (Done("snapshot") /\ last.thrown = "none") => TruncationBoundary

(***************************************************************************)
(* C4 amended.  The truncation boundary holds for every tree text and      *)
(* every limit K >= 0 (maxChars when supplied, else 50000).                *)
(***************************************************************************)
C4_TruncationBoundary ==
  (Done("snapshot") /\ last.thrown = "none" /\ LimitAsked >= 0)
    => TruncationBoundary

\* a snapshot cut at a limit asked for, shorter than the text
C4_Witness ==
  /\ Done("snapshot")
  /\ last.thrown = "none"
  /\ last.maxChars # None
  /\ LimitAsked >= 1
  /\ Len(Render(dom)) > LimitAsked
  /\ result.truncated
  /\ Len(result.snapshot[1]) = LimitAsked + Len(TruncationMarker)

(***************************************************************************)
(* C5.  Open preserves prior pages: a successful open makes a new page     *)
(* the active page; the page that was active before it is still open, in   *)
(* the context it was in, which is also the context of the new page; and   *)
(* every page that was open before the open is open after it, for any      *)
(* number of successive opens.                                             *)
(***************************************************************************)
C5_OpenPreservesPriorPages ==
  [][ (Ran("open") /\ result'.ok)
        => /\ page' \notin 1..Len(world.pageCtx)
           /\ PageAlive(world', page')
           /\ world'.ctxBrowser[world'.pageCtx[page']] = browser'
           /\ OpenPages(world) \subseteq OpenPages(world')
           /\ \A p \in 1..Len(world.pageCtx) :
                world'.pageCtx[p] = world.pageCtx[p]
           /\ \A p \in 1..Len(world'.pageCtx) :
                world'.ctxBrowser[world'.pageCtx[p]] = browser'
                  => PageAlive(world', p)
           /\ page # 0
                => /\ page' # page
                   /\ PageAlive(world', page)
                   /\ world'.pageCtx[page'] = world.pageCtx[page]
    ]_vars

\* the second of two opens on a session that had a page: three open pages
C5_Witness ==
  /\ Done("open")
  /\ result.ok
  /\ last.prePage # 0
  /\ page # last.prePage
  /\ PageAlive(world, last.prePage)
  /\ PageAlive(world, page)
  /\ Cardinality(OpenPages(world)) = MaxPages

(***************************************************************************)
(* C6.  Error boundary: every tool call returns one structured result and  *)
(* never throws; when a driver call of the run has failed (launch, new     *)
(* context, new page, goto, snapshot capture, click, fill, hover, press,   *)
(* evaluate, close, ...) the result is the error result whose message      *)
(* carries the subsystem prefix.                                           *)
(***************************************************************************)
C6_ErrorBoundary ==
  pc = "done"
    => /\ result.settled = "returned"
       /\ last.thrown # "none"
            => /\ result = [NoResult EXCEPT !.error = last.thrown,
                                            !.prefix = ErrorPrefix]
               /\ ~result.ok

\* a click that the driver has failed, after a snapshot stored the ref
C6_Witness ==
  /\ Done("act")
  /\ last.kind = "click"
  /\ last.entry # None
  /\ last.thrown = "click"
  /\ result.settled = "returned"
  /\ result.prefix = ErrorPrefix
  /\ result.error = "click"

(***************************************************************************)
(* C7.  nth semantics: for a ref of the RefTable, a stored nth of 0 and an *)
(* undefined nth both act on the first of the elements with the role and   *)
(* name, however many there are; a stored nth of 2 acts on the third.      *)
(* The code adds nth() to the locator only for nth > 0, and a locator      *)
(* without nth() is strict: with two or more matching elements the         *)
(* interaction throws instead of acting on the first.                      *)
(***************************************************************************)
C7_NthSemantics ==
  (pc = "done" /\ last.action = "act" /\ last.entry # None /\ last.m >= 1)
    => /\ last.entry[1].nth \in {None, Some(0)} => last.target = Some(0)
       /\ (last.entry[1].nth = Some(2) /\ last.m >= 3) => last.target = Some(2)

(***************************************************************************)
(* The lines of a tree that carry a ref id, and the greatest of a set.     *)
(***************************************************************************)
LinesWith(d, id) ==
  {i \in 1..Len(d) : d[i].ref # None /\ <<"e">> \o d[i].ref[1] = id}

Max(S) == CHOOSE x \in S : \A y \in S : y <= x

(***************************************************************************)
(* C8.  Parser grammar: for every line with a marker [ref=e<digits>] the   *)
(* table stores under that id: role = the first word token after the       *)
(* line's "- " bullet ("generic" if none), name = the first double-quoted  *)
(* substring of the line (undefined if none), nth = the integer of the     *)
(* [nth=<digits>] marker (undefined if none); lines without a ref marker   *)
(* add no entry.                                                           *)
(* The code takes the role only when the word follows the bullet at once:  *)
(* on a line the driver writes as a quoted key, - 'h1 "a: b" [ref=e7]',    *)
(* it stores "generic".                                                    *)
(***************************************************************************)
C8_ParserGrammar ==
  (Done("snapshot") /\ last.thrown = "none")
    => /\ DOMAIN currentRefs = RefIdsOf(dom)
       /\ \A id \in RefIdsOf(dom) :
            Cardinality(LinesWith(dom, id)) = 1
              => LET l == dom[Max(LinesWith(dom, id))]
                 IN  currentRefs[id] =
                       [role |-> IF l.bullet /\ Len(l.role) > 0
                                 THEN l.role ELSE GenericRole,
                        name |-> IF l.name # None THEN l.name ELSE l.text,
                        nth |-> l.nth]

(***************************************************************************)
(* C9.  Duplicate ref: when a ref id stands on two or more lines of one    *)
(* snapshot text, the table holds one entry for the id, the entry parsed   *)
(* from the last of these lines; every key of the table is "e" followed by *)
(* one or more digits.                                                     *)
(***************************************************************************)
C9_DuplicateRefLastWins ==
  (Done("snapshot") /\ last.thrown = "none")
    => /\ \A id \in RefIdsOf(dom) :
            Cardinality(LinesWith(dom, id)) >= 2
              => /\ id \in DOMAIN currentRefs
                 /\ currentRefs[id] =
                      ParseLine(EmptyRefs, RenderLine(dom[Max(LinesWith(dom, id))]))[id]
       /\ \A k \in DOMAIN currentRefs :
            /\ Len(k) >= 2
            /\ k[1] = "e"
            /\ \A i \in 2..Len(k) : IsDigit(k[i])

\* a ref id on several lines whose first and last line parse differently
C9_Witness ==
  /\ Done("snapshot")
  /\ last.thrown = "none"
  /\ \E id \in RefIdsOf(dom) :
       LET S == LinesWith(dom, id)
           first == ParseLine(EmptyRefs, RenderLine(dom[Min(S)]))[id]
           final == ParseLine(EmptyRefs, RenderLine(dom[Max(S)]))[id]
       IN  /\ Cardinality(S) >= 2
           /\ first # final
           /\ currentRefs[id] = final

(***************************************************************************)
(* C10 as stated.  Session invariant: in every reachable state, whenever a *)
(* browser exists the active-page pointer references an open page owned by *)
(* that browser, and whenever no browser exists the pointer is undefined   *)
(* and the RefTable is empty.  A launch that succeeds before newContext or *)
(* newPage throws leaves a browser without an active page.                 *)
(***************************************************************************)
C10_SessionInvariantAsStated ==
  /\ browser # 0
       => /\ page # 0
          /\ PageAlive(world, page)
          /\ world.ctxBrowser[world.pageCtx[page]] = browser
  /\ browser = 0 => (page = 0 /\ currentRefs = EmptyRefs)

(***************************************************************************)
(* C10 amended.  In every reachable state, whenever the active-page        *)
(* pointer is defined a browser exists and the pointer references an open  *)
(* page owned by that browser, and whenever no browser exists the pointer  *)
(* is undefined and the RefTable is empty.                                 *)
(***************************************************************************)
C10_SessionInvariant ==
  /\ page # 0
       => /\ browser # 0
          /\ PageAlive(world, page)
          /\ world.ctxBrowser[world.pageCtx[page]] = browser
  /\ browser = 0 => (page = 0 /\ currentRefs = EmptyRefs)

\* an open whose goto failed: the new page exists, the pointer has not moved
C10_Witness ==
  /\ Done("open")
  /\ last.thrown = "goto"
  /\ browser # 0
  /\ page # 0
  /\ page = last.prePage
  /\ PageAlive(world, page)
  /\ Cardinality(OpenPages(world)) >= 2

(***************************************************************************)
(* C11.  After a successful close on an active session the browser is      *)
(* closed, and with it every context and page the session created (the     *)
(* active page and the pages left behind by open); the browser reference   *)
(* and the active-page pointer are cleared and the RefTable is empty.      *)
(***************************************************************************)
C11_Teardown ==
  [][ (Ran("close") /\ browser # 0 /\ last'.thrown = "none")
        => /\ result' = Ok(Some("Browser closed"))
           /\ calls' = <<"close">>
           /\ browser' = 0
           /\ page' = 0
           /\ currentRefs' = EmptyRefs
           /\ ~BrowserAlive(world', browser)
           /\ \A p \in 1..Len(world'.pageCtx) :
                world'.ctxBrowser[world'.pageCtx[p]] = browser
                  => ~PageAlive(world', p)
           /\ OpenPages(world') = {}
    ]_vars

\* a close of a browser with several pages and a filled RefTable
C11_Witness ==
  /\ Done("close")
  /\ last.preBrowser # 0
  /\ last.thrown = "none"
  /\ last.dropped # {}
  /\ Cardinality({p \in 1..Len(world.pageCtx) :
                    world.ctxBrowser[world.pageCtx[p]] = last.preBrowser}) >= 2
  /\ browser = 0
  /\ currentRefs = EmptyRefs

(***************************************************************************)
(* C12.  ensure is idempotent: on a session that has a browser and an      *)
(* active page, every navigate, snapshot, act and read, however many       *)
(* follow one another, keeps the browser and the active page and launches  *)
(* no browser, creates no context and creates no page.                     *)
(***************************************************************************)
C12_EnsureIdempotent ==
  [][ ((Ran("navigate") \/ Ran("snapshot") \/ Ran("act") \/ Ran("read"))
       /\ browser # 0 /\ page # 0)
        => /\ browser' = browser
           /\ page' = page
           /\ world'.launched = world.launched
           /\ world'.ctxBrowser = world.ctxBrowser
           /\ world'.pageCtx = world.pageCtx
           /\ Range(calls') \cap {"launch", "newContext", "newPage"} = {}
    ]_vars

\* a read on an active session: it ran on the page that was active
C12_Witness ==
  /\ Done("read")
  /\ last.prePage # 0
  /\ last.preBrowser # 0
  /\ last.thrown = "none"
  /\ page = last.prePage
  /\ browser = last.preBrowser
  /\ calls = <<"waitForLoadState", "evaluate", "title">>

(***************************************************************************)
(* C13.  navigate or open without a url, and act without a request,        *)
(* return their validation error at once: no driver call is made, an       *)
(* uninitialized session stays uninitialized, and an active session keeps  *)
(* its browser, its active page and its ref table.                         *)
(***************************************************************************)
MissingArgument ==
  \/ Ran("navigate") /\ ~Given(last'.arg)
  \/ Ran("open") /\ ~Given(last'.arg)
  \/ Ran("act") /\ last'.arg = None

C13_ValidationBeforeDriver ==
  [][ MissingArgument
        => /\ result' = Err(CASE last'.action = "navigate" -> "url is required for navigate action"
                              [] last'.action = "open" -> "url is required for open action"
                              [] last'.action = "act" -> "request is required for act action")
           /\ calls' = << >>
           /\ browser' = browser
           /\ page' = page
           /\ currentRefs' = currentRefs
           /\ world' = world
    ]_vars

\* an act without request on an active session that holds refs
C13_Witness ==
  /\ Done("act")
  /\ last.arg = None
  /\ browser # 0
  /\ page # 0
  /\ currentRefs # EmptyRefs
  /\ result = Err("request is required for act action")
  /\ calls = << >>

(***************************************************************************)
(* C14.  act with kind "type", a ref and a text, once the page is there,   *)
(* issues one fill with exactly that text, for every supplied text         *)
(* including the empty string, and returns ok when the fill succeeds; the  *)
(* "... is required for type" errors are returned only when ref or text is *)
(* absent.                                                                 *)
(* The code tests `!text`, which is true of the empty string: a request    *)
(* with text "" is answered "text is required for type" and no fill is     *)
(* issued.                                                                 *)
(***************************************************************************)
EnsureFailed == last.thrown \in {"launch", "newContext", "newPage"}

C14_TypeFillsSuppliedText ==
  (Done("act") /\ last.kind = "type" /\ ~EnsureFailed)
    => /\ (GivenRef(last.ref) /\ last.arg[1].text # None)
            => /\ last.filled = <<last.arg[1].text[1]>>
               /\ Len(SelectSeq(calls, LAMBDA c : c = "fill")) = 1
               /\ last.thrown = "none"
                    => result = [Ok(last.ref) EXCEPT !.typed = last.arg[1].text]
       /\ result.error \in {"ref is required for type", "text is required for type"}
            => (last.ref = None \/ last.arg[1].text = None)

(***************************************************************************)
(* C15.  A failure of the network-idle wait is never surfaced: no result   *)
(* reports it, and a click, press, snapshot or read whose wait failed      *)
(* while its other driver calls succeeded returns its normal success       *)
(* result.  A failure of goto, click, fill or hover is always returned as  *)
(* an error result, never as success.                                      *)
(***************************************************************************)
NormalResult ==
  CASE last.action = "act" /\ last.kind = "click" -> Ok(last.ref)
    [] last.action = "act" /\ last.kind = "press" -> Ok(last.arg[1].key)
    [] last.action = "read" -> Data
    [] last.action = "snapshot" ->
         [Data EXCEPT !.snapshot = Some(Truncate(SnapshotText(dom), last.maxChars).snapshot),
                      !.truncated = Truncate(SnapshotText(dom), last.maxChars).truncated,
                      !.refCount = Cardinality(DOMAIN ParsedRefs(dom)),
                      !.refs = ParsedRefs(dom)]
    [] OTHER -> result

C15_SettleFailureSwallowed ==
  pc = "done"
    => /\ result.error # "waitForLoadState"
       /\ last.thrown # "waitForLoadState"
       /\ (last.swallowed /\ last.thrown = "none")
            => /\ result = NormalResult
               /\ result.settled = "returned"
               /\ result.error = ""
       /\ last.thrown \in {"goto", "click", "fill", "hover"}
            => /\ ~result.ok
               /\ result.error = last.thrown
               /\ result.prefix = ErrorPrefix

\* a click that succeeded, followed by a network-idle wait that failed
C15_Witness ==
  /\ Done("act")
  /\ last.kind = "click"
  /\ last.swallowed
  /\ last.thrown = "none"
  /\ calls[Len(calls)] = "waitForLoadState"
  /\ calls[Len(calls) - 1] = "click"
  /\ result = Ok(last.ref)

(***************************************************************************)
(* C16.  Snapshot, then act: once a snapshot has captured a tree whose     *)
(* text carries ref r, and until the next capture or teardown, a click,    *)
(* type or hover on r resolves through getByRole with the role stored for  *)
(* r, with the stored name and exact matching when a name is stored, and   *)
(* returns ok with the ref when the driver calls succeed.  The snapshot    *)
(* reports as refCount the number of refs of the tree: 1 for the tree      *)
(* - link "Docs" [ref=e1].                                                 *)
(***************************************************************************)
C16_SnapshotThenAct ==
  /\ (Done("snapshot") /\ last.thrown = "none")
       => /\ captured
          /\ result.refCount = Cardinality(RefIdsOf(dom))
  /\ (Done("act") /\ last.loc # None /\ captured /\ last.ref[1] \in RefIdsOf(dom))
       => /\ last.entry = Some(ParsedRefs(dom)[last.ref[1]])
          /\ last.loc[1].via = "getByRole"
          /\ last.loc[1].role = last.entry[1].role
          /\ last.entry[1].name # None
               => last.loc[1].name = last.entry[1].name /\ last.loc[1].exact
          /\ last.entry[1].name = None
               => last.loc[1].name = None /\ ~last.loc[1].exact
          /\ ~EnsureFailed
               => "getByRole" \in Range(calls) /\ "aria-ref" \notin Range(calls)
          /\ last.thrown = "none"
               => /\ result.ok
                  /\ result.echo = last.ref
                  /\ result.error = ""

\* after a snapshot of - link "Docs" [ref=e1], a click on e1 has succeeded
C16_Witness ==
  /\ Done("act")
  /\ last.kind = "click"
  /\ last.ref = Some(E1)
  /\ captured
  /\ dom = <<LinkDocs>>
  /\ Cardinality(DOMAIN currentRefs) = 1
  /\ last.loc = Some([via |-> "getByRole", ref |-> E1, role |-> <<"l", "i", "n", "k">>,
                      name |-> Some(<<"D", "o", "c", "s">>), exact |-> TRUE, nth |-> None])
  /\ last.thrown = "none"
  /\ result = Ok(Some(E1))

(***************************************************************************)
(* C17.  act with kind "wait" pauses for min(timeMs, 10000) milliseconds,  *)
(* with 2000 for an absent timeMs, and reports that value as waited; no    *)
(* duration handed to the driver exceeds 10000.                            *)
(***************************************************************************)
WaitedFor(timeMs) ==
  IF timeMs = None THEN 2000
  ELSE IF timeMs[1] <= 10000 THEN timeMs[1] ELSE 10000

C17_WaitClamped ==
  /\ pc = "done" => \A i \in 1..Len(last.paused) : last.paused[i] <= 10000
  /\ (Done("act") /\ last.kind = "wait" /\ ~EnsureFailed)
       => /\ last.paused = <<WaitedFor(last.arg[1].timeMs)>>
          /\ Len(SelectSeq(calls, LAMBDA c : c = "waitForTimeout")) = 1
          /\ last.thrown = "none" => result = Ok(Some(WaitedFor(last.arg[1].timeMs)))

\* a wait of 20000 ms has paused for 10000 ms
C17_Witness ==
  /\ Done("act")
  /\ last.kind = "wait"
  /\ last.arg[1].timeMs = Some(20000)
  /\ last.paused = <<10000>>
  /\ last.thrown = "none"
  /\ result = Ok(Some(10000))

(***************************************************************************)
(* C19.  Frame of the ref table: navigate, open, read and every act kind,  *)
(* whether they succeed or fail, leave the table exactly as it was, also   *)
(* when they change the active page; the table changes only in a snapshot  *)
(* whose capture obtained the text (to the refs parsed from it) and in a   *)
(* close that closed the browser (to the empty table).                     *)
(***************************************************************************)
C19_RefTableFrame ==
  [][ /\ (Ran("navigate") \/ Ran("open") \/ Ran("read") \/ Ran("act"))
           => currentRefs' = currentRefs
      /\ currentRefs' # currentRefs
           => \/ /\ Ran("snapshot")
                 /\ "snapshotForAI" \in Range(calls')
                 /\ last'.thrown # "snapshotForAI"
                 /\ currentRefs' = ParsedRefs(dom')
              \/ /\ Ran("close")
                 /\ calls' = <<"close">>
                 /\ last'.thrown = "none"
                 /\ currentRefs' = EmptyRefs
    ]_vars

\* an open has replaced the active page of a session that holds refs
C19_Witness ==
  /\ Done("open")
  /\ last.thrown = "none"
  /\ last.prePage # 0
  /\ page # last.prePage
  /\ last.dropped = {}
  /\ currentRefs # EmptyRefs

(***************************************************************************)
(* C20.  A snapshot whose capture throws returns an error result and       *)
(* leaves the ref table exactly as the previous successful snapshot        *)
(* produced it; a snapshot replaces the table only when its capture has    *)
(* obtained the tree text.                                                 *)
(***************************************************************************)
C20_FailedCaptureKeepsRefTable ==
  [][ Ran("snapshot")
        => /\ last'.thrown = "snapshotForAI"
                => /\ currentRefs' = currentRefs
                   /\ dom' = dom
                   /\ captured' = captured
                   /\ result'.error = "snapshotForAI"
                   /\ result'.prefix = ErrorPrefix
                   /\ ~result'.ok
                   /\ result'.snapshot = None
                   /\ captured => currentRefs' = ParsedRefs(dom)
           /\ ("snapshotForAI" \notin Range(calls') \/ last'.thrown = "snapshotForAI")
                => currentRefs' = currentRefs
           /\ ("snapshotForAI" \in Range(calls') /\ last'.thrown # "snapshotForAI")
                => currentRefs' = ParsedRefs(dom')
    ]_vars

\* the capture of a snapshot has thrown on a session that holds refs
C20_Witness ==
  /\ Done("snapshot")
  /\ last.thrown = "snapshotForAI"
  /\ captured
  /\ currentRefs # EmptyRefs
  /\ currentRefs = ParsedRefs(dom)
  /\ result.error = "snapshotForAI"
  /\ result.prefix = ErrorPrefix

(***************************************************************************)
(* C18.  Initialization race: two calls that run concurrently on the       *)
(* uninitialized session can both find `browser` null; then each launches  *)
(* a browser, two browsers are running while the session references one    *)
(* of them, and the close issued after both calls returned closes that one *)
(* and leaves the other running, as does every close after it.  In the     *)
(* interleaving of the witness two pages were created as well.             *)
(***************************************************************************)
Raced == \A i \in Callers : proc[i].saw

C18_InitializationRace ==
  Raced
    => /\ (\A i \in Callers : proc[i].pc \notin {"idle", "launch"})
            => world.launched = 2
       /\ ((\A i \in Callers : proc[i].pc = "returned") /\ last.action = "none"
           /\ browser # 0)
            => /\ world.open = {1, 2}
               /\ browser \in {1, 2}
               /\ Len(world.pageCtx) \in {1, 2}
       /\ (Done("close") /\ last.preBrowser # 0)
            => /\ browser = 0
               /\ page = 0
               /\ world.open = {1, 2} \ {last.preBrowser}
       /\ ((\A i \in Callers : proc[i].pc = "returned") /\ browser = 0)
            => Cardinality(world.open) = 1

\* both calls launched a browser and created a page; after the close one
\* browser and its page are still there, and the session references nothing
C18_Witness ==
  /\ Raced
  /\ Done("close")
  /\ world.launched = 2
  /\ Len(world.pageCtx) = 2
  /\ browser = 0
  /\ page = 0
  /\ Cardinality(world.open) = 1
  /\ OpenPages(world) # {}

(***************************************************************************)
(* C21.  The ref table is built from the whole tree text, before the       *)
(* truncation: in a snapshot result refCount is the number of distinct ref *)
(* ids of the whole tree and refs is the whole table, whatever maxChars    *)
(* is; a truncated result can list refs whose lines are not in the text it *)
(* returns, and those refs resolve through role and name all the same.     *)
(***************************************************************************)
C21_RefTableFromFullText ==
  (Done("snapshot") /\ last.thrown = "none")
    => /\ result.refs = parseRefsFromSnapshot(Render(dom))
       /\ result.refs = currentRefs
       /\ DOMAIN result.refs = RefIdsOf(dom)
       /\ result.refCount = Cardinality(RefIdsOf(dom))
       /\ result.snapshot = Some(Truncate(Render(dom), last.maxChars).snapshot)
       /\ \A id \in DOMAIN result.refs :
            /\ resolveRefToLocator(currentRefs, id).via = "getByRole"
            /\ resolveRefToLocator(currentRefs, id).role = result.refs[id].role

\* a truncated snapshot lists a ref that its text does not mention
C21_Witness ==
  /\ Done("snapshot")
  /\ last.thrown = "none"
  /\ result.truncated
  /\ result.refCount = 2
  /\ \E id \in DOMAIN result.refs :
       /\ MentionsRef(Render(dom), id)
       /\ ~MentionsRef(result.snapshot[1], id)
       /\ resolveRefToLocator(currentRefs, id).via = "getByRole"

(***************************************************************************)
(* C22.  Closed is not terminal: on a session whose browser was closed,    *)
(* the next navigate or open with a url, snapshot, act with a request or   *)
(* read starts by launching a browser; when the launch and the creation of *)
(* context and page succeed, the session has a new running browser and a   *)
(* new active page, none of them of the closed session.  The ref table is  *)
(* empty when that action starts, and until a snapshot captures a tree     *)
(* every ref id resolves by the aria-ref fallback.                         *)
(***************************************************************************)
NeedsPage ==
  \/ Ran("navigate") /\ Given(last'.arg)
  \/ Ran("open") /\ Given(last'.arg)
  \/ Ran("snapshot")
  \/ Ran("act") /\ last'.arg # None
  \/ Ran("read")

\* a browser was closed and the session holds no running browser
Closed == world.launched > 0 /\ ~BrowserAlive(world, browser)

Ensured ==
  /\ Len(calls') >= 3
  /\ SubSeq(calls', 1, 3) = <<"launch", "newContext", "newPage">>
  /\ (Len(calls') > 3 \/ last'.thrown = "none")

C22_ClosedIsNotTerminal ==
  [][ /\ (NeedsPage /\ Closed)
           => /\ browser = 0
              /\ page = 0
              /\ currentRefs = EmptyRefs
              /\ calls'[1] = "launch"
              /\ Ensured
                   => /\ browser' = world.launched + 1
                      /\ BrowserAlive(world', browser')
                      /\ page' > Len(world.pageCtx)
                      /\ PageAlive(world', page')
                      /\ world'.ctxBrowser[world'.pageCtx[page']] = browser'
      /\ (Ran("act") /\ ~captured /\ last'.loc # None)
           => /\ last'.loc[1] = AriaRefLocator(last'.ref[1])
              /\ "getByRole" \notin Range(calls')
    ]_vars

\* after a close of a session that held ref e1, a click on e1 has run on a
\* new browser and page through the aria-ref fallback
C22_Witness ==
  /\ Done("act")
  /\ last.kind = "click"
  /\ last.preBrowser = 0
  /\ last.prePage = 0
  /\ world.launched = 2
  /\ browser = 2
  /\ world.open = {2}
  /\ page = Len(world.pageCtx)
  /\ ~captured
  /\ last.loc # None
  /\ last.ref[1] \in RefIdsOf(dom)
  /\ last.loc = Some(AriaRefLocator(last.ref[1]))
  /\ calls = <<"launch", "newContext", "newPage", "aria-ref", "click", "waitForLoadState">>
  /\ last.thrown = "none"

(***************************************************************************)
(* C23.  An open whose load (goto) fails returns an error result and       *)
(* leaves the active-page pointer on the page that was active before (the  *)
(* page ensureBrowser created, on a session that had none); the page       *)
(* created for the open is not closed: it stays open, in the context of    *)
(* the active page, and like every open page it stays open until a close   *)
(* closes the browser.                                                     *)
(***************************************************************************)
C23_FailedOpenKeepsActivePage ==
  [][ /\ (Ran("open") /\ last'.thrown = "goto")
           => /\ ~result'.ok
              /\ result'.error = "goto"
              /\ result'.prefix = ErrorPrefix
              /\ page # 0 => page' = page
              /\ page = 0 => page' = Len(world.pageCtx) + 1
              /\ Len(world'.pageCtx) = Len(world.pageCtx) + (IF page = 0 THEN 2 ELSE 1)
              /\ page' # Len(world'.pageCtx)
              /\ PageAlive(world', page')
              /\ PageAlive(world', Len(world'.pageCtx))
              /\ world'.pageCtx[Len(world'.pageCtx)] = world'.pageCtx[page']
              /\ world'.closedPages = world.closedPages
      /\ \A p \in OpenPages(world) :
           \/ PageAlive(world', p)
           \/ Ran("close") /\ last'.thrown = "none" /\ calls' = <<"close">>
    ]_vars

\* an open has failed in goto on a session that had an active page: the
\* pointer has not moved and the page made for the open is open
C23_Witness ==
  /\ Done("open")
  /\ last.thrown = "goto"
  /\ last.prePage # 0
  /\ page = last.prePage
  /\ Len(world.pageCtx) > page
  /\ PageAlive(world, Len(world.pageCtx))
  /\ result.error = "goto"
  /\ result.prefix = ErrorPrefix

(***************************************************************************)
(* C24.  REST client cache: callApi reads the cache only when called with  *)
(* cacheable = true, and on a hit returns the cached response without any  *)
(* HTTP request; it writes the cache only with cacheable = true and only   *)
(* after an ok response with valid JSON.  A failed request creates or      *)
(* changes no cache entry, and a call that is not cacheable neither reads  *)
(* nor writes the cache.                                                   *)
(***************************************************************************)
Called == api'.turn # api.turn

CalledKey == <<api'.endpoint, api'.params>>

CalledCacheable == api'.options = Some([cacheable |-> Some(TRUE)])

C24_CacheDiscipline ==
  [][ Called
        => /\ api'.run.reads # << >> => CalledCacheable
           /\ (CalledCacheable /\ cache[CalledKey] # None)
                => /\ api'.run.fetches = << >>
                   /\ api'.run.writes = << >>
                   /\ api'.run.outcome = "returned"
                   /\ api'.run.value = cache[CalledKey]
                   /\ cache' = cache
           /\ ~(CalledCacheable /\ cache[CalledKey] # None)
                => Len(api'.run.fetches) = 1
           /\ (api'.run.writes # << >> \/ cache' # cache)
                => /\ CalledCacheable
                   /\ api'.answer.kind = "ok"
                   /\ api'.run.outcome = "returned"
                   /\ api'.run.writes = <<CalledKey>>
                   /\ cache' = [cache EXCEPT ![CalledKey] = api'.run.value]
                   /\ api'.run.value[1].data = api'.answer.data
           /\ api'.run.outcome = "thrown"
                => /\ api'.answer.kind # "ok"
                   /\ api'.run.writes = << >>
                   /\ cache' = cache
           /\ ~CalledCacheable
                => /\ api'.run.reads = << >>
                   /\ api'.run.writes = << >>
                   /\ cache' = cache
    ]_vars

\* a cacheable call has returned the stored response of its request while
\* the server would not have answered, and has made no HTTP request
C24_Witness ==
  /\ api.options = Some([cacheable |-> Some(TRUE)])
  /\ api.answer.kind = "network"
  /\ api.run.outcome = "returned"
  /\ api.run.reads = << <<api.endpoint, api.params>> >>
  /\ api.run.fetches = << >>
  /\ api.run.value # None
  /\ api.run.value = cache[<<api.endpoint, api.params>>]

====
